---- MODULE Spec2Model ----
(***************************************************************************)
(* Model of the virtual memory manager of src/main.c: the demand-paging    *)
(* loop of map_addresses() over the structures built by                    *)
(* create_virtual_memory(), create_physical_memory() and                   *)
(* create_page_table().                                                    *)
(*                                                                         *)
(* One behaviour is one run of the program on one input file and one       *)
(* backing store.  The input and the backing store are chosen in Init;     *)
(* every later step is one iteration of the for loop of map_addresses()    *)
(* (a hit or a fault), or the statistics written after the loop.           *)
(***************************************************************************)
EXTENDS Integers, Sequences, FiniteSets, TLC

(***************************************************************************)
(* Program constants (src/main.c:12-19).                                   *)
(***************************************************************************)
UNMAPPED == -1

FRAME_SIZE == 256

FRAME_NUMBER_OFFSET_BITS == 8

PAGE_NUMBER_OFFSET_BITS == 8

PAGE_OFFSET_MASK == 255

PAGE_TABLE_SIZE == 256

PAGE_SIZE == 256

PHYSICAL_MEMORY_SIZE == PAGE_TABLE_SIZE * PAGE_SIZE

\* unsigned char next_available_frame_index: 8 bits wide (src/main.c:62).
UCHAR_BITS == 8

\* The spec's FRAME_COUNT: the number of FRAME_SIZE frames in the space
\* malloc'ed by create_physical_memory() (src/main.c:282).
FRAME_COUNT == PHYSICAL_MEMORY_SIZE \div FRAME_SIZE

(***************************************************************************)
(* Bounds of the model.                                                    *)
(***************************************************************************)
\* Longest input whose addresses are drawn freely from AddressSample.
MaxLen == 3

\* Number of addresses that follow a sweep over all PAGE_TABLE_SIZE pages.
MaxRevisit == 2

\* Raw addresses of the freely composed inputs: the first byte of page 0,
\* two bytes of page 5, the spec's 16916 (page 66, offset 20), and the last
\* byte of the last page.
AddressSample == {0, 1300, 1400, 16916, 65535}

\* First page and page stride of the sweep inputs.
SweepStarts == {0, 66}

SweepStrides == {1, 3}

\* Sizes in bytes of the backing stores shorter than the address space:
\* an empty file, and a file that ends inside page 5.
ShortStoreSizes == {0, 1380}

\* Values an uninitialised (malloc'ed, never written) byte may hold.
GarbageSample == {0, -86}

(***************************************************************************)
(* Integer operations of C on non-negative operands.                       *)
(***************************************************************************)
Pow2(n) == 2 ^ n

ShiftRight(x, n) == x \div Pow2(n)

ShiftLeft(x, n) == x * Pow2(n)

RECURSIVE BitAnd(_, _)
BitAnd(a, b) ==
    IF a = 0 \/ b = 0 THEN 0
    ELSE (a % 2) * (b % 2) + 2 * BitAnd(a \div 2, b \div 2)

RECURSIVE BitOr(_, _)
BitOr(a, b) ==
    IF a = 0 THEN b
    ELSE IF b = 0 THEN a
    ELSE (IF a % 2 = 1 \/ b % 2 = 1 THEN 1 ELSE 0) + 2 * BitOr(a \div 2, b \div 2)

\* Conversion of a byte read from a file (0..255) to signed char.
ToSignedChar(b) == IF b > 127 THEN b - 256 ELSE b

Min(a, b) == IF a < b THEN a ELSE b

Max(a, b) == IF a > b THEN a ELSE b

(***************************************************************************)
(* create_virtual_memory(): one VirtualAddress per input line.             *)
(***************************************************************************)
\* A mask one bit short of the offset width.
NewVirtualAddress_NarrowMask(raw) ==
    [address     |-> raw,
     page_number |-> ShiftRight(raw, PAGE_NUMBER_OFFSET_BITS),
     page_offset |-> BitAnd(raw, PAGE_OFFSET_MASK \div 2)]

NewVirtualAddress(raw) ==
    [address     |-> raw,
     page_number |-> ShiftRight(raw, PAGE_NUMBER_OFFSET_BITS),
     page_offset |-> BitAnd(raw, PAGE_OFFSET_MASK)]

create_virtual_memory(raws) ==
    [k \in 1..Len(raws) |-> NewVirtualAddress(raws[k])]

(***************************************************************************)
(* The inputs of a run.                                                    *)
(***************************************************************************)
RECURSIVE SeqsUpTo(_, _)
SeqsUpTo(S, n) ==
    IF n = 0 THEN {<<>>}
    ELSE LET shorter == SeqsUpTo(S, n - 1)
         IN  shorter \cup {Append(s, a) : s \in shorter, a \in S}

ShortInputs == SeqsUpTo(AddressSample, MaxLen)

\* A sweep touches every page once, in the order start, start+stride, ...
\* (the strides are odd, so the order is a permutation of the pages), with
\* varying offsets, and then goes on over pages it has already touched.
SweepInput(start, stride) ==
    [k \in 1..(PAGE_TABLE_SIZE + MaxRevisit) |->
        ((start + (k - 1) * stride) % PAGE_TABLE_SIZE) * PAGE_SIZE
            + ((20 + 7 * (k - 1)) % PAGE_SIZE)]

SweepInputs == {SweepInput(s, d) : s \in SweepStarts, d \in SweepStrides}

\* Byte at position pos of the backing store file (as stored, 0..255).
\* Bytes at one offset differ between pages, and bytes of one page differ
\* between offsets.
BackingStoreByte(pos) == ((pos \div PAGE_SIZE) + 3 * (pos % PAGE_SIZE)) % 256

FullStoreSize == PAGE_TABLE_SIZE * PAGE_SIZE

VARIABLES
    addresses,        \* virtual_memory->addresses (address_count = Len)
    i,                \* loop index of map_addresses()
    map,              \* page_table->map
    fault_count,      \* page_table->fault_count
    next_available_frame_index, \* physical_memory->next_available_frame_index
    space,            \* physical_memory->space
    pm_addresses,     \* physical_memory->addresses (the report array)
    pm_address_count, \* physical_memory->address_count
    page_read_buffer, \* the buffer malloc'ed by map_addresses()
    backing_store,    \* the FILE* backing_store: size and position
    output,           \* the lines written to output_file
    steps,            \* per processed address: the locals of the iteration
    pc,               \* "start" at the entry of main(), "loop" while in the
                      \* for loop, "done" after it, "exited" after exit()
    argc,             \* the argument count of main()
    opened,           \* per file: whether fopen() returns a stream
    allocated,        \* the structures created so far
    console,          \* the lines printed to stdout
    exit_status,      \* <<>> while running, <<status>> after exit()
    codec             \* one address taken through the decoding of lines
                      \* 253-255 and the encoding of line 200 on its own

vars == <<addresses, i, map, fault_count, next_available_frame_index, space,
          pm_addresses, pm_address_count, page_read_buffer, backing_store,
          output, steps, pc, argc, opened, allocated, console, exit_status,
          codec>>

\* The variables map_addresses() never touches.
process == <<argc, opened, allocated, exit_status, codec>>

\* The codec at rest, as in every run of main().
CodecIdle ==
    [stage |-> "idle", raw |-> 0, va |-> NewVirtualAddress(0), address |-> 0]

address_count == Len(addresses)

(***************************************************************************)
(* The state after main() has opened the files and called                  *)
(* create_virtual_memory(), create_physical_memory(), create_page_table(). *)
(***************************************************************************)
create_page_table_map == [p \in 0..(PAGE_TABLE_SIZE - 1) |-> UNMAPPED]

\* malloc(PHYSICAL_MEMORY_SIZE), never initialised.  The space is kept in
\* rows of FRAME_SIZE bytes: byte a of the C array is byte a % FRAME_SIZE of
\* row a \div FRAME_SIZE.  Only the rows written so far are stored; every
\* byte of the other rows still holds the garbage value fill.
create_physical_memory_space(g) ==
    [fill |-> g, rows |-> [f \in {} |-> [k \in 0..(FRAME_SIZE - 1) |-> g]]]

\* Byte a of the space, for a in 0..PHYSICAL_MEMORY_SIZE-1.
SpaceByte(sp, a) ==
    IF (a \div FRAME_SIZE) \in DOMAIN sp.rows
    THEN sp.rows[a \div FRAME_SIZE][a % FRAME_SIZE]
    ELSE sp.fill

\* realloc(physical_memory->addresses, sizeof(PhysicalAddress) * address_count)
ReportArray(n, g) ==
    [slot \in 0..(n - 1) |->
        [address |-> g, frame_number |-> g, frame_offset |-> g, value |-> g]]

NewPageReadBuffer(g) == [k \in 0..(PAGE_SIZE - 1) |-> g]

StoreSizes == ShortStoreSizes \cup {FullStoreSize}

Runs ==
    {[raws |-> r, size |-> s] : r \in ShortInputs, s \in StoreSizes}
        \cup {[raws |-> r, size |-> FullStoreSize] : r \in SweepInputs}

InitWith(raws, size, g) ==
    /\ addresses = create_virtual_memory(raws)
    /\ i = 0
    /\ map = create_page_table_map
    /\ fault_count = 0
    /\ next_available_frame_index = 0
    /\ space = create_physical_memory_space(g)
    /\ pm_addresses = ReportArray(Len(raws), g)
    /\ pm_address_count = 0
    /\ page_read_buffer = NewPageReadBuffer(g)
    /\ backing_store = [size |-> size, pos |-> 0]
    /\ output = <<>>
    /\ steps = <<>>
    /\ pc = "loop"
    /\ argc = 2
    /\ opened = [input |-> TRUE, output |-> TRUE, store |-> TRUE]
    /\ allocated = {"virtual_memory", "physical_memory", "page_table"}
    /\ console = <<>>
    /\ exit_status = <<>>
    /\ codec = CodecIdle

Init == \E run \in Runs, g \in GarbageSample : InitWith(run.raws, run.size, g)

(***************************************************************************)
(* The pieces of one iteration of the loop of map_addresses().             *)
(***************************************************************************)
\* page_table->map[va_page_number]
LookupFrame(m, page_number) == m[page_number]

\* A fault counted twice.
IncrementFaultCount_Twice(n) == n + 2

\* page_table->fault_count++
IncrementFaultCount(n) == n + 1

\* A counter that skips every other frame.
NextFrameIndex_ByTwo(n) == (n + 2) % Pow2(UCHAR_BITS)

\* A counter one bit narrower than the frame numbers.
NextFrameIndex_Narrow(n) == (n + 1) % Pow2(UCHAR_BITS - 1)

\* physical_memory->next_available_frame_index++ on an unsigned char
NextFrameIndex(n) == (n + 1) % Pow2(UCHAR_BITS)

\* A read that goes on from the position of the previous read.
FSeek_NoSeek(file, page_number) == file

\* fseek(backing_store, va_page_number * PAGE_SIZE, SEEK_SET): a seek to a
\* non-negative offset of a regular file succeeds, also past its end.
FSeek(file, page_number) == [file EXCEPT !.pos = page_number * PAGE_SIZE]

\* Number of items fread() can deliver from the position of the file.
ItemsAvailable(file) == Min(PAGE_SIZE, Max(0, file.size - file.pos))

\* fread(page_read_buffer, 1, PAGE_SIZE, backing_store): the items read
\* replace the front of the buffer, the rest of the buffer keeps its bytes.
FRead(buffer, file) ==
    LET n == ItemsAvailable(file)
    IN  [buffer |-> [k \in 0..(PAGE_SIZE - 1) |->
                        IF k < n
                        THEN ToSignedChar(BackingStoreByte(file.pos + k))
                        ELSE buffer[k]],
         file   |-> [file EXCEPT !.pos = file.pos + n],
         items  |-> n]

\* for (i = 0; i < PAGE_SIZE; i++) space[(frame * FRAME_SIZE) + i] = buffer[i]
LoadPage(sp, frame_number, buffer) ==
    LET first   == frame_number * FRAME_SIZE
        last    == first + PAGE_SIZE - 1
        written == {f \in 0..(FRAME_COUNT - 1) :
                        /\ f * FRAME_SIZE <= last
                        /\ f * FRAME_SIZE + FRAME_SIZE - 1 >= first}
    IN  [sp EXCEPT !.rows =
            [f \in (DOMAIN sp.rows) \cup written |->
                IF f \in written
                THEN [k \in 0..(FRAME_SIZE - 1) |->
                        LET a == f * FRAME_SIZE + k
                        IN  IF a >= first /\ a <= last
                            THEN buffer[a - first]
                            ELSE SpaceByte(sp, a)]
                ELSE sp.rows[f]]]

\* A fault whose mapping is never recorded.
Install_Dropped(m, page_number, frame_number) == m

\* An install that unmaps every other page.
Install_Evicting(m, page_number, frame_number) ==
    [p \in DOMAIN m |-> IF p = page_number THEN frame_number ELSE UNMAPPED]

\* page_table->map[va_page_number] = pa_frame_number
Install(m, page_number, frame_number) == [m EXCEPT ![page_number] = frame_number]

\* A shift one bit short of the offset width.
EncodePhysical_ShortShift(frame_number, frame_offset) ==
    BitOr(ShiftLeft(frame_number, FRAME_NUMBER_OFFSET_BITS - 1), frame_offset)

\* (frame_number << FRAME_NUMBER_OFFSET_BITS) | frame_offset
EncodePhysical(frame_number, frame_offset) ==
    BitOr(ShiftLeft(frame_number, FRAME_NUMBER_OFFSET_BITS), frame_offset)

\* physical_memory->space[pa_frame_offset + (pa_frame_number * PAGE_SIZE)]
ReadByte(sp, frame_number, frame_offset) ==
    SpaceByte(sp, frame_offset + (frame_number * PAGE_SIZE))

NewPhysicalAddress(sp, frame_number, frame_offset) ==
    [address      |-> EncodePhysical(frame_number, frame_offset),
     frame_number |-> frame_number,
     frame_offset |-> frame_offset,
     value        |-> ReadByte(sp, frame_number, frame_offset)]

\* A line that prints the physical address in the place of the virtual one.
TranslationLine_WrongArgument(va, entry) ==
    [kind     |-> "translation",
     virtual  |-> entry.address,
     physical |-> entry.address,
     value    |-> entry.value]

\* "Virtual address: %d Physical address: %d Value: %d\n"
TranslationLine(va, entry) ==
    [kind     |-> "translation",
     virtual  |-> va.address,
     physical |-> entry.address,
     value    |-> entry.value]

\* The entry stored at the slot of the translation index, the line printed
\* from the slot of the frame number.
Report_StaleSlot(va, frame_number, sp) ==
    /\ pm_addresses' = [pm_addresses EXCEPT ![i] =
            NewPhysicalAddress(sp, frame_number, va.page_offset)]
    /\ pm_address_count' = pm_address_count + 1
    /\ output' = Append(output, TranslationLine(va, pm_addresses'[frame_number]))
    /\ i' = i + 1

\* Lines 192-211: build the PhysicalAddress, store it in the report array at
\* the slot of its frame number, count it, and print that slot.  A slot past
\* the end of the array is a location outside the array: the array keeps
\* its entries, and the line is printed from the location just written.
Report(va, frame_number, sp) ==
    LET physical_address == NewPhysicalAddress(sp, frame_number, va.page_offset)
    IN  /\ pm_addresses' =
                IF frame_number \in DOMAIN pm_addresses
                THEN [pm_addresses EXCEPT ![frame_number] = physical_address]
                ELSE pm_addresses
        /\ pm_address_count' = pm_address_count + 1
        /\ output' = Append(output,
                TranslationLine(va,
                    IF frame_number \in DOMAIN pm_addresses
                    THEN pm_addresses'[frame_number]
                    ELSE physical_address))
        /\ i' = i + 1

(***************************************************************************)
(* One iteration of the for loop of map_addresses() (lines 151-212).       *)
(***************************************************************************)
\* The page of addresses[i] is mapped: lines 161-165 find its frame, lines
\* 192-211 report it.
TranslateHit ==
    /\ pc = "loop"
    /\ i < address_count
    /\ LET va == addresses[i + 1]
           pa_frame_number == LookupFrame(map, va.page_number)
       IN  /\ pa_frame_number # UNMAPPED
           /\ Report(va, pa_frame_number, space)
           /\ steps' = Append(steps,
                  [page_number  |-> va.page_number,
                   page_offset  |-> va.page_offset,
                   frame_number |-> pa_frame_number,
                   fault        |-> FALSE,
                   items_read   |-> 0])
    /\ UNCHANGED <<addresses, map, fault_count, next_available_frame_index,
                   space, page_read_buffer, backing_store, pc, process, console>>

\* The page of addresses[i] is unmapped: lines 165-187 count the fault, take
\* the next frame, read the page from the backing store into that frame and
\* install the mapping; lines 192-211 report the address.
TranslateFault ==
    /\ pc = "loop"
    /\ i < address_count
    /\ LET va == addresses[i + 1]
           pa_frame_number == next_available_frame_index
           read == FRead(page_read_buffer, FSeek(backing_store, va.page_number))
       IN  /\ LookupFrame(map, va.page_number) = UNMAPPED
           /\ fault_count' = IncrementFaultCount(fault_count)
           /\ next_available_frame_index' = NextFrameIndex(next_available_frame_index)
           /\ backing_store' = read.file
           /\ page_read_buffer' = read.buffer
           /\ space' = LoadPage(space, pa_frame_number, read.buffer)
           /\ map' = Install(map, va.page_number, pa_frame_number)
           /\ Report(va, pa_frame_number, space')
           /\ steps' = Append(steps,
                  [page_number  |-> va.page_number,
                   page_offset  |-> va.page_offset,
                   frame_number |-> pa_frame_number,
                   fault        |-> TRUE,
                   items_read   |-> read.items])
    /\ UNCHANGED <<addresses, pc, process, console>>

(***************************************************************************)
(* The statistics written after the loop (lines 215-217).                  *)
(***************************************************************************)
\* (float)fault_count / (float)address_count: the quotient for a non-zero
\* divisor, and NaN for 0.0f / 0.0f.
FaultRate(faults, count) ==
    IF count = 0
    THEN [nan |-> TRUE, dividend |-> faults, divisor |-> count]
    ELSE [nan |-> FALSE, dividend |-> faults, divisor |-> count]

WriteStatistics ==
    /\ pc = "loop"
    /\ ~(i < address_count)
    /\ output' = output
            \o <<[kind |-> "faults", count |-> fault_count],
                 [kind |-> "rate", rate |-> FaultRate(fault_count, address_count)]>>
    /\ console' = Append(console, "Successfully generated output file 'output.txt'")
    /\ pc' = "done"
    /\ UNCHANGED <<addresses, i, map, fault_count, next_available_frame_index,
                   space, pm_addresses, pm_address_count, page_read_buffer,
                   backing_store, steps, process>>

\* The status a parent process sees for exit(n): the low eight bits of n.
ExitStatus(n) == n % 256

\* main() after map_addresses() has returned (lines 129-134).
ExitSuccess ==
    /\ pc = "done"
    /\ exit_status' = <<ExitStatus(0)>>
    /\ pc' = "exited"
    /\ UNCHANGED <<addresses, i, map, fault_count, next_available_frame_index,
                   space, pm_addresses, pm_address_count, page_read_buffer,
                   backing_store, output, steps, argc, opened, allocated,
                   console, codec>>

Next == TranslateHit \/ TranslateFault \/ WriteStatistics \/ ExitSuccess

Spec == Init /\ [][Next]_vars

(***************************************************************************)
(* main() from its entry (lines 86-127): the argument check, the three     *)
(* fopen() calls and their checks, and the creation of the structures.     *)
(***************************************************************************)
\* Nothing is created yet; the placeholders are empty.
InitMain ==
    /\ addresses = <<>>
    /\ i = 0
    /\ map = <<>>
    /\ fault_count = 0
    /\ next_available_frame_index = 0
    /\ space = [fill |-> 0, rows |-> <<>>]
    /\ pm_addresses = <<>>
    /\ pm_address_count = 0
    /\ page_read_buffer = <<>>
    /\ backing_store = [size |-> 0, pos |-> 0]
    /\ output = <<>>
    /\ steps = <<>>
    /\ pc = "start"
    /\ argc \in 1..3
    /\ opened \in [{"input", "output", "store"} -> BOOLEAN]
    /\ allocated = {}
    /\ console = <<>>
    /\ exit_status = <<>>
    /\ codec = CodecIdle

Untouched ==
    UNCHANGED <<addresses, i, map, fault_count, next_available_frame_index,
                space, pm_addresses, pm_address_count, page_read_buffer,
                backing_store, output, steps, argc, opened, allocated,
                codec>>

\* if (argc != 2) { printf("Usage: ..."); exit(0); }
Usage ==
    /\ pc = "start"
    /\ argc # 2
    /\ console' = Append(console, "Usage: %s addresses.txt")
    /\ exit_status' = <<ExitStatus(0)>>
    /\ pc' = "exited"
    /\ Untouched

\* The first stream found NULL by the checks of lines 100-113, in their
\* order, or "none".
FirstFailedOpen(o) ==
    IF ~o.input THEN "input"
    ELSE IF ~o.output THEN "output"
    ELSE IF ~o.store THEN "store"
    ELSE "none"

\* All three failures exit with the status of the input file.
OpenFailureCode_Same(resource) == -1

\* The argument of exit() for each stream that is NULL.
OpenFailureCode(resource) ==
    IF resource = "input" THEN -1
    ELSE IF resource = "output" THEN -2
    ELSE -3

\* The line printed for each stream that is NULL.
OpenFailureMessage(resource) ==
    IF resource = "input" THEN "Error: unable to open %s"
    ELSE IF resource = "output" THEN "Error: unable to open output.txt"
    ELSE "Error: unable to open the backing store 'BACKING_STORE.bin'"

\* Lines 95-113 when a stream is NULL: the message and the exit.  The
\* output file, when it could be opened, has been truncated and is empty.
OpenFailure ==
    /\ pc = "start"
    /\ argc = 2
    /\ FirstFailedOpen(opened) # "none"
    /\ console' = Append(console, OpenFailureMessage(FirstFailedOpen(opened)))
    /\ exit_status' = <<ExitStatus(OpenFailureCode(FirstFailedOpen(opened)))>>
    /\ pc' = "exited"
    /\ Untouched

\* Lines 95-127 when the three streams are open: the address list is read
\* from the input file, the physical memory and the page table are created,
\* and map_addresses() allocates its buffer and resizes the report array.
Startup ==
    /\ pc = "start"
    /\ argc = 2
    /\ FirstFailedOpen(opened) = "none"
    /\ \E run \in Runs, g \in GarbageSample :
        /\ addresses' = create_virtual_memory(run.raws)
        /\ map' = create_page_table_map
        /\ space' = create_physical_memory_space(g)
        /\ pm_addresses' = ReportArray(Len(run.raws), g)
        /\ page_read_buffer' = NewPageReadBuffer(g)
        /\ backing_store' = [size |-> run.size, pos |-> 0]
    /\ i' = 0
    /\ fault_count' = 0
    /\ next_available_frame_index' = 0
    /\ pm_address_count' = 0
    /\ allocated' = {"virtual_memory", "physical_memory", "page_table"}
    /\ pc' = "loop"
    /\ UNCHANGED <<output, steps, argc, opened, console, exit_status, codec>>

NextMain == Usage \/ OpenFailure \/ Startup \/ Next

MainSpec == InitMain /\ [][NextMain]_vars

TypeOK ==
    /\ i \in 0..address_count
    /\ pc \in {"loop", "done", "exited"}
    /\ fault_count \in 0..address_count
    /\ next_available_frame_index \in 0..(Pow2(UCHAR_BITS) - 1)
    /\ Len(steps) = i

(***************************************************************************)
(* The address codec on its own: the decoding of create_virtual_memory()   *)
(* (lines 253-255) applied to one raw address, and the encoding of         *)
(* map_addresses() (line 200) applied to the decoded page number, taken as *)
(* frame number, and the decoded offset.                                   *)
(***************************************************************************)
InitCodec ==
    /\ addresses = <<>>
    /\ i = 0
    /\ map = <<>>
    /\ fault_count = 0
    /\ next_available_frame_index = 0
    /\ space = [fill |-> 0, rows |-> <<>>]
    /\ pm_addresses = <<>>
    /\ pm_address_count = 0
    /\ page_read_buffer = <<>>
    /\ backing_store = [size |-> 0, pos |-> 0]
    /\ output = <<>>
    /\ steps = <<>>
    /\ pc = "codec"
    /\ argc = 2
    /\ opened = [input |-> TRUE, output |-> TRUE, store |-> TRUE]
    /\ allocated = {}
    /\ console = <<>>
    /\ exit_status = <<>>
    /\ \E raw \in 0..(PAGE_TABLE_SIZE * PAGE_SIZE - 1) :
        codec = [stage |-> "raw", raw |-> raw, va |-> NewVirtualAddress(0),
                 address |-> 0]

CodecOnly ==
    UNCHANGED <<addresses, i, map, fault_count, next_available_frame_index,
                space, pm_addresses, pm_address_count, page_read_buffer,
                backing_store, output, steps, pc, argc, opened, allocated,
                console, exit_status>>

Decode ==
    /\ pc = "codec"
    /\ codec.stage = "raw"
    /\ codec' = [codec EXCEPT !.stage = "decoded",
                              !.va = NewVirtualAddress(codec.raw)]
    /\ CodecOnly

Encode ==
    /\ pc = "codec"
    /\ codec.stage = "decoded"
    /\ codec' = [codec EXCEPT !.stage = "encoded",
                              !.address = EncodePhysical(codec.va.page_number,
                                                         codec.va.page_offset)]
    /\ CodecOnly

NextCodec == Decode \/ Encode

CodecSpec == InitCodec /\ [][NextCodec]_vars

(***************************************************************************)
(* Vocabulary of the properties.  steps[k] and output[k] describe the k-th *)
(* processed address; every prefix of a run is a reachable state, so a     *)
(* statement about the address processed last, made of every reachable     *)
(* state, is a statement about every processed address.                    *)
(***************************************************************************)
Processed == 1..Len(steps)

FaultSteps == {k \in Processed : steps[k].fault}

PagesSeen == {steps[k].page_number : k \in Processed}

MappedPages == {p \in DOMAIN map : map[p] # UNMAPPED}

\* The earlier steps that referenced the page of step k.
EarlierSamePage(k) ==
    {j \in 1..(k - 1) : steps[j].page_number = steps[k].page_number}

\* The frame number carried by the k-th translation record.
RecordFrame(k) == output[k].physical \div PAGE_SIZE

(***************************************************************************)
(* C1  At most one fault per page: the faults counted are exactly the      *)
(* steps that found their page unmapped; the address processed last        *)
(* faulted if and only if no earlier address referenced its page, and      *)
(* otherwise it was a hit translated with the frame number of every        *)
(* earlier address of that page.                                           *)
(***************************************************************************)
AtMostOneFaultPerPage ==
    /\ fault_count = Cardinality(FaultSteps)
    /\ steps # <<>> =>
        LET k == Len(steps)
        IN  /\ steps[k].fault <=> EarlierSamePage(k) = {}
            /\ \A j \in EarlierSamePage(k) :
                /\ steps[j].frame_number = steps[k].frame_number
                /\ RecordFrame(j) = RecordFrame(k)

\* The spec's scenario: two addresses of page 5, one fault, the same frame.
TwoAddressesOfPageFive ==
    /\ Len(steps) = 2
    /\ steps[1].page_number = 5 /\ steps[2].page_number = 5
    /\ steps[1].page_offset # steps[2].page_offset
    /\ steps[1].fault /\ ~steps[2].fault
    /\ fault_count = 1
    /\ RecordFrame(1) = RecordFrame(2)

(***************************************************************************)
(* C2  Byte fidelity: the value of every translation record is the byte    *)
(* of the backing store at page_number * PAGE_SIZE + page_offset (as a     *)
(* signed char), whatever pages were faulted in before or after.           *)
(***************************************************************************)
StorePosition(k) == steps[k].page_number * PAGE_SIZE + steps[k].page_offset

ByteFidelityOfEveryRecord ==
    \A k \in Processed :
        output[k].value = ToSignedChar(BackingStoreByte(StorePosition(k)))

\* The same for the records whose byte the backing store holds: this much
\* holds in every run.
ByteFidelity ==
    \A k \in Processed :
        StorePosition(k) < backing_store.size =>
            output[k].value = ToSignedChar(BackingStoreByte(StorePosition(k)))

\* A hit on a page after another page was faulted in between.
HitAfterOtherPageLoaded ==
    /\ Len(steps) = 3
    /\ steps[1].fault /\ steps[2].fault /\ ~steps[3].fault
    /\ steps[3].page_number = steps[1].page_number
    /\ steps[3].page_offset # steps[1].page_offset
    /\ StorePosition(3) < backing_store.size
    /\ output[3].value = ToSignedChar(BackingStoreByte(StorePosition(3)))

(***************************************************************************)
(* C3  Monotonic frame allocation: a fault that follows n earlier faults   *)
(* receives frame number n, up to and including the fault of the           *)
(* PAGE_TABLE_SIZE-th distinct page.                                       *)
(***************************************************************************)
MonotonicFrameAllocation ==
    steps # <<>> =>
        LET k == Len(steps)
        IN  steps[k].fault =>
                /\ steps[k].frame_number = Cardinality(FaultSteps) - 1
                /\ RecordFrame(k) = Cardinality(FaultSteps) - 1
                /\ \A j \in FaultSteps \ {k} :
                        steps[j].frame_number < steps[k].frame_number

\* The fault of the last of the PAGE_TABLE_SIZE pages.
LastPageFaulted ==
    /\ steps # <<>>
    /\ steps[Len(steps)].fault
    /\ Cardinality(FaultSteps) = PAGE_TABLE_SIZE
    /\ steps[Len(steps)].frame_number = PAGE_TABLE_SIZE - 1

(***************************************************************************)
(* C4  Fault accounting: fault_count <= number of distinct pages among the *)
(* processed addresses <= number of processed addresses.                   *)
(***************************************************************************)
FaultAccounting ==
    /\ fault_count <= Cardinality(PagesSeen)
    /\ Cardinality(PagesSeen) <= pm_address_count
    /\ pm_address_count = i

\* Fewer distinct pages than addresses, and more than one page.
RepeatedAndDistinctPages ==
    /\ pm_address_count = 3
    /\ Cardinality(PagesSeen) = 2
    /\ fault_count = 2

(***************************************************************************)
(* C5  Physical-address invariant: every translation has its frame offset  *)
(* in [0, PAGE_SIZE) and its frame number in [0, FRAME_COUNT), its         *)
(* physical address is frame_number * PAGE_SIZE + frame_offset, the bytes  *)
(* written by a fault and the byte read for the record lie inside          *)
(* [0, PHYSICAL_MEMORY_SIZE), and no more than FRAME_COUNT frames are      *)
(* ever allocated.                                                         *)
(***************************************************************************)
PhysicalAddressInvariant ==
    /\ fault_count <= FRAME_COUNT
    /\ \A k \in Processed :
        LET frame  == steps[k].frame_number
            offset == steps[k].page_offset
        IN  /\ offset \in 0..(PAGE_SIZE - 1)
            /\ frame \in 0..(FRAME_COUNT - 1)
            /\ output[k].physical = frame * PAGE_SIZE + offset
            /\ steps[k].fault =>
                /\ frame * FRAME_SIZE >= 0
                /\ frame * FRAME_SIZE + (PAGE_SIZE - 1) < PHYSICAL_MEMORY_SIZE
            /\ offset + frame * PAGE_SIZE \in 0..(PHYSICAL_MEMORY_SIZE - 1)

\* A translation into the last frame of physical memory.
LastFrameTranslated ==
    \E k \in Processed :
        /\ steps[k].frame_number = FRAME_COUNT - 1
        /\ output[k].physical >= (FRAME_COUNT - 1) * PAGE_SIZE
        /\ output[k].physical < PHYSICAL_MEMORY_SIZE

(***************************************************************************)
(* C6  Page-table entry lifecycle: every entry starts unmapped; an entry   *)
(* becomes mapped only in the step that processes the first address of its *)
(* page, that step always maps it, and a mapped entry keeps its frame      *)
(* number in every later step.                                             *)
(***************************************************************************)
FirstReference(p) ==
    /\ pc = "loop"
    /\ i < address_count
    /\ addresses[i + 1].page_number = p
    /\ \A j \in 1..i : addresses[j].page_number # p

EntryStep ==
    /\ \A p \in DOMAIN map :
        /\ map[p] # UNMAPPED => map'[p] = map[p]
        /\ (map[p] = UNMAPPED /\ map'[p] # UNMAPPED) => FirstReference(p)
        /\ (FirstReference(p) /\ i' = i + 1) =>
                (map[p] = UNMAPPED /\ map'[p] # UNMAPPED)

PageTableEntryLifecycle ==
    /\ \A p \in DOMAIN map : map[p] = UNMAPPED
    /\ [][EntryStep]_vars

\* A mapped entry that has lived through a later fault and a later hit.
EntryKeptAcrossLaterSteps ==
    /\ Len(steps) = 3
    /\ steps[1].fault /\ steps[2].fault /\ ~steps[3].fault
    /\ steps[3].page_number = steps[2].page_number
    /\ map[steps[1].page_number] = steps[1].frame_number
    /\ map[steps[2].page_number] = steps[2].frame_number

(***************************************************************************)
(* C7  No frame is reused: no two faults received the same frame number,   *)
(* and no two mapped pages share a frame number.                           *)
(***************************************************************************)
NoFrameReuse ==
    /\ Cardinality({steps[k].frame_number : k \in FaultSteps})
            = Cardinality(FaultSteps)
    /\ Cardinality({map[p] : p \in MappedPages}) = Cardinality(MappedPages)

\* Every page of the page table is mapped.
AllPagesMapped == Cardinality(MappedPages) = PAGE_TABLE_SIZE

(***************************************************************************)
(* C8  The allocator's counter equals the number of faults so far; after   *)
(* FRAME_COUNT faults it equals FRAME_COUNT.                               *)
(***************************************************************************)
NextFrameEqualsFaultCount == next_available_frame_index = fault_count

(***************************************************************************)
(* C9  A backing-store read that does not deliver PAGE_SIZE bytes is       *)
(* fatal: no translation record is emitted for the faulting address (nor   *)
(* for a later one), so no record rests on a partially filled frame.       *)
(***************************************************************************)
ReadFailureIsFatal ==
    \A k \in Processed :
        (steps[k].fault /\ steps[k].items_read < PAGE_SIZE) => Len(output) < k

(***************************************************************************)
(* C10  Empty input: the run emits no translation record, reports 0 page   *)
(* faults, and reports a defined fault rate without dividing by an         *)
(* address count of 0.                                                     *)
(***************************************************************************)
EmptyInputRateDefined ==
    (pc = "done" /\ address_count = 0) =>
        /\ Len(output) = 2
        /\ output[1] = [kind |-> "faults", count |-> 0]
        /\ output[2].kind = "rate"
        /\ output[2].rate.divisor # 0
        /\ ~output[2].rate.nan

(***************************************************************************)
(* C11  Startup failures are fatal before any work: when the input file or *)
(* the backing store cannot be opened, the process never gets past the     *)
(* checks of main(): it creates no address list, physical memory or page   *)
(* table and emits no translation record, the exit is enabled, and it      *)
(* exits with the message and status of the first failed check, status     *)
(* 255 for the input file and 253 for the backing store.                   *)
(***************************************************************************)
StartupFailureIsFatal ==
    (argc = 2 /\ (~opened.input \/ ~opened.store)) =>
        /\ pc \in {"start", "exited"}
        /\ allocated = {}
        /\ addresses = <<>> /\ map = <<>> /\ space.rows = <<>>
        /\ output = <<>>
        /\ pc = "start" => ENABLED OpenFailure
        /\ pc = "exited" =>
            /\ Len(console) = 1
            /\ ~opened.input =>
                /\ exit_status = <<255>>
                /\ console[1] = "Error: unable to open %s"
            /\ (opened.input /\ opened.output) =>
                /\ exit_status = <<253>>
                /\ console[1] =
                    "Error: unable to open the backing store 'BACKING_STORE.bin'"
            /\ exit_status # <<0>>

\* The exit for a backing store that cannot be opened.
BackingStoreOpenFailed ==
    /\ pc = "exited"
    /\ opened.input /\ opened.output /\ ~opened.store
    /\ exit_status = <<253>>
    /\ allocated = {}

(***************************************************************************)
(* C12  Strict input order: the k-th line of the output is the translation *)
(* record of the k-th input address; inside the loop exactly the addresses *)
(* before the loop index have a record; every step of the loop processes   *)
(* one address, the one at the loop index, and emits its record in that    *)
(* same step; the two summary lines follow the records of all N addresses. *)
(***************************************************************************)
RecordsInInputOrder ==
    /\ Len(steps) = i
    /\ \A k \in 1..i :
        /\ output[k].kind = "translation"
        /\ output[k].virtual = addresses[k].address
        /\ steps[k].page_number = addresses[k].page_number
    /\ pc = "loop" => Len(output) = i
    /\ pc \in {"done", "exited"} =>
        /\ i = address_count
        /\ Len(output) = address_count + 2
        /\ output[address_count + 1].kind = "faults"
        /\ output[address_count + 2].kind = "rate"

OneAddressPerStep ==
    /\ i' \in {i, i + 1}
    /\ i' = i + 1 =>
        /\ pc = "loop" /\ pc' = "loop"
        /\ output' = Append(output, output'[i + 1])
        /\ output'[i + 1].virtual = addresses[i + 1].address
    /\ Len(output') > Len(output) /\ i' = i => i = address_count

StrictInputOrder == []RecordsInInputOrder /\ [][OneAddressPerStep]_vars

\* A finished run over three different addresses.
ThreeRecordsThenSummary ==
    /\ pc = "done"
    /\ address_count = 3
    /\ addresses[1].address # addresses[2].address
    /\ addresses[2].address # addresses[3].address
    /\ Len(output) = 5
    /\ \A k \in 1..3 : output[k].virtual = addresses[k].address

(***************************************************************************)
(* C13  Decode/encode round trip: every raw address in                     *)
(* [0, PAGE_TABLE_SIZE * PAGE_SIZE) decodes to a page number in            *)
(* [0, PAGE_TABLE_SIZE) and an offset in [0, PAGE_SIZE), and encoding the  *)
(* page number as frame number with that offset gives the raw address      *)
(* back.                                                                   *)
(***************************************************************************)
DecodeEncodeRoundTrip ==
    /\ codec.stage \in {"decoded", "encoded"} =>
        /\ codec.va.address = codec.raw
        /\ codec.va.page_number \in 0..(PAGE_TABLE_SIZE - 1)
        /\ codec.va.page_offset \in 0..(PAGE_SIZE - 1)
        /\ codec.va.page_number * PAGE_SIZE + codec.va.page_offset = codec.raw
    /\ codec.stage = "encoded" => codec.address = codec.raw

\* The spec's address 16916: page 66, offset 20, and back.
RoundTripOf16916 ==
    /\ codec.stage = "encoded"
    /\ codec.raw = 16916
    /\ codec.va.page_number = 66
    /\ codec.va.page_offset = 20
    /\ codec.address = 16916

(***************************************************************************)
(* C14  Frame effect of a step of the loop.  A hit leaves the page table,  *)
(* the physical memory, the allocator's counter and fault_count unchanged. *)
(* A fault changes the page-table entry of its page only and the bytes of  *)
(* the newly allocated frame only, and ends with the page installed in     *)
(* that frame and the frame holding the PAGE_SIZE bytes of the page.       *)
(***************************************************************************)
OtherFramesUnchanged(frame_number) ==
    /\ space'.fill = space.fill
    /\ (DOMAIN space'.rows) \ {frame_number} = (DOMAIN space.rows) \ {frame_number}
    /\ \A f \in (DOMAIN space.rows) \ {frame_number} :
            space'.rows[f] = space.rows[f]

HitEffect ==
    /\ map' = map
    /\ space' = space
    /\ next_available_frame_index' = next_available_frame_index
    /\ fault_count' = fault_count

FaultEffect(page_number, frame_number) ==
    /\ \A q \in (DOMAIN map) \ {page_number} : map'[q] = map[q]
    /\ OtherFramesUnchanged(frame_number)
    /\ map'[page_number] = frame_number

FrameHoldsPage(page_number, frame_number) ==
    \A k \in 0..(PAGE_SIZE - 1) :
        SpaceByte(space', frame_number * FRAME_SIZE + k)
            = ToSignedChar(BackingStoreByte(page_number * PAGE_SIZE + k))

FrameEffectStep ==
    i' = i + 1 =>
        LET page_number == addresses[i + 1].page_number
        IN  IF map[page_number] # UNMAPPED
            THEN HitEffect
            ELSE /\ FaultEffect(page_number, next_available_frame_index)
                 /\ FrameHoldsPage(page_number, next_available_frame_index)

FrameEffect == [][FrameEffectStep]_vars

(***************************************************************************)
(* C15  Page table and allocator stay in step: the number of mapped        *)
(* entries equals fault_count and the number of distinct pages processed,  *)
(* and the frame numbers stored in the page table are exactly              *)
(* 0 .. fault_count - 1.                                                   *)
(***************************************************************************)
PageTableInStep ==
    /\ Cardinality(MappedPages) = fault_count
    /\ Cardinality(MappedPages) = Cardinality(PagesSeen)
    /\ MappedPages = PagesSeen
    /\ {map[p] : p \in MappedPages} = 0..(fault_count - 1)

\* Two mapped pages after three addresses.
TwoPagesInStep ==
    /\ fault_count = 2
    /\ i = 3
    /\ Cardinality(MappedPages) = 2
    /\ {map[p] : p \in MappedPages} = {0, 1}

(***************************************************************************)
(* C16  The report array is never written out of bounds: the frame number  *)
(* of the address at 0-based index n is at most n, hence below             *)
(* address_count and a slot of the array.                                  *)
(***************************************************************************)
ReportSlotInBounds ==
    \A k \in Processed :
        /\ steps[k].frame_number >= 0
        /\ steps[k].frame_number <= k - 1
        /\ steps[k].frame_number < address_count
        /\ steps[k].frame_number \in DOMAIN pm_addresses

\* An input with fewer addresses than frames whose last address takes the
\* last slot of the array.
LastSlotWritten ==
    /\ address_count = 3
    /\ Len(steps) = 3
    /\ steps[3].fault
    /\ steps[3].frame_number = address_count - 1
    /\ pm_addresses[2].frame_number = 2

(***************************************************************************)
(* C17  The record emitted for an address is its own translation: its      *)
(* physical address is (frame_number << 8) | page_offset of the address    *)
(* just processed and its value is the byte of that frame at that offset,  *)
(* also when the slot of the report array was written before by an         *)
(* earlier address of the same frame.                                      *)
(***************************************************************************)
OwnTranslationEmitted ==
    steps # <<>> =>
        LET k      == Len(steps)
            frame  == steps[k].frame_number
            offset == steps[k].page_offset
        IN  /\ output[k].virtual = addresses[k].address
            /\ offset = addresses[k].address % PAGE_SIZE
            /\ output[k].physical = frame * Pow2(8) + offset
            /\ output[k].value = SpaceByte(space, frame * PAGE_SIZE + offset)
            /\ pm_addresses[frame].frame_offset = offset
            /\ pm_addresses[frame].address = output[k].physical

\* Two addresses of one page with different offsets: the second record is
\* written over the slot of the first and differs from it.
SlotOverwritten ==
    /\ Len(steps) = 2
    /\ steps[1].frame_number = steps[2].frame_number
    /\ steps[1].page_offset # steps[2].page_offset
    /\ output[1].physical # output[2].physical
    /\ pm_addresses[steps[2].frame_number].address = output[2].physical

====
